---- MODULE Spec2Model ----
(***************************************************************************)
(* Model of the card-tap protocol helpers (the TypeScript module with      *)
(* verify_certs_ll, lines 20-497 of src/unnamed/part_000).  Every exported *)
(* function is a synchronous pure function; the model is a state machine   *)
(* that, from the idle state, performs one call with inputs drawn from     *)
(* bounded sets and records the inputs, the outcome and the trace of       *)
(* crypto-primitive calls the function made.                               *)
(***************************************************************************)
EXTENDS Integers, Sequences, FiniteSets, TLC

VARIABLES call, input, outcome, ops

vars == <<call, input, outcome, ops>>

(***************************************************************************)
(* Outcomes of a call: a returned value, a thrown Error with its message   *)
(* class, or falling off the end of the function (JavaScript undefined).   *)
(***************************************************************************)
Returned(v) == [status |-> "ok", value |-> v]

Thrown(e) == [status |-> "error", error |-> e]

Undefined == [status |-> "undefined"]

(***************************************************************************)
(* Bounds of the model.                                                    *)
(***************************************************************************)
MaxPathLen == 2

MaxChain == 3

(***************************************************************************)
(* Generic helpers on sequences (Buffers and strings are sequences).       *)
(***************************************************************************)
Range(s) == {s[i] : i \in 1..Len(s)}

Fill(n, b) == [i \in 1..n |-> b]

startsWith(s, p) == Len(p) <= Len(s) /\ SubSeq(s, 1, Len(p)) = p

endsWith(s, p) == Len(p) <= Len(s) /\ SubSeq(s, Len(s) - Len(p) + 1, Len(s)) = p

RECURSIVE SeqsUpTo(_, _)
SeqsUpTo(S, n) ==
    IF n = 0 THEN {<<>>}
    ELSE LET shorter == SeqsUpTo(S, n - 1)
         IN shorter \cup {Append(s, x) : s \in {t \in shorter : Len(t) = n - 1}, x \in S}

(***************************************************************************)
(* Strings are sequences of UTF-16 code units, as JavaScript indexes and   *)
(* measures them.  Text written in this module goes through Text and Chr,  *)
(* which look printable ASCII characters up by their code.                 *)
(***************************************************************************)
\* the printable ASCII characters in code order: from the space (code 32) to
\* the underscore, and from "a" (code 97) to the tilde
AsciiLow ==
    <<" ", "!", "\"", "#", "$", "%", "&", "'", "(", ")", "*", "+", ",", "-",
      ".", "/", "0", "1", "2", "3", "4", "5", "6", "7", "8", "9", ":", ";",
      "<", "=", ">", "?", "@", "A", "B", "C", "D", "E", "F", "G", "H", "I",
      "J", "K", "L", "M", "N", "O", "P", "Q", "R", "S", "T", "U", "V", "W",
      "X", "Y", "Z", "[", "\\", "]", "^", "_">>

AsciiHigh ==
    <<"a", "b", "c", "d", "e", "f", "g", "h", "i", "j", "k", "l", "m", "n",
      "o", "p", "q", "r", "s", "t", "u", "v", "w", "x", "y", "z", "{", "|",
      "}", "~">>

IndexOf(s, c) == IF c \in Range(s) THEN CHOOSE i \in 1..Len(s) : s[i] = c /\ \A j \in 1..(i - 1) : s[j] # c ELSE 0

CodeUnit ==
    [c \in Range(AsciiLow) \cup Range(AsciiHigh) |->
        IF c \in Range(AsciiLow) THEN 31 + IndexOf(AsciiLow, c) ELSE 96 + IndexOf(AsciiHigh, c)]

\* the code unit of a printable ASCII character
Chr(c) == CodeUnit[c]

\* the string of the given printable ASCII characters
Text(s) == [i \in 1..Len(s) |-> CodeUnit[s[i]]]

(***************************************************************************)
(* JavaScript numbers.  parseInt can yield any integer-valued double, so a *)
(* number is NaN, an infinity, or a sign and a magnitude held exactly as   *)
(* 16-bit limbs, lowest first, without high zero limbs (zero has none).    *)
(***************************************************************************)
Limb == 256 * 256

RECURSIVE Strip(_)
\* limbs without their high zero limbs
Strip(l) == IF Len(l) > 0 /\ l[Len(l)] = 0 THEN Strip(SubSeq(l, 1, Len(l) - 1)) ELSE l

NaN == [nan |-> TRUE, inf |-> FALSE, neg |-> FALSE, limbs |-> <<>>]

Infinity == [nan |-> FALSE, inf |-> TRUE, neg |-> FALSE, limbs |-> <<>>]

\* the non-negative number with the given limbs
Integral(l) == [nan |-> FALSE, inf |-> FALSE, neg |-> FALSE, limbs |-> Strip(l)]

\* the number h * 2^16 + l
Num(h, l) == Integral(<<l, h>>)

\* unary minus: it turns 0 into -0
Negate(x) == IF x.nan THEN x ELSE [x EXCEPT !.neg = ~x.neg]

IsZero(x) == ~x.nan /\ ~x.inf /\ x.limbs = <<>>

\* the two low limbs of the magnitude
Lo(x) == IF Len(x.limbs) >= 1 THEN x.limbs[1] ELSE 0

Hi(x) == IF Len(x.limbs) >= 2 THEN x.limbs[2] ELSE 0

\* x * r + d on limbs, for small r and d
RECURSIVE MulAdd(_, _, _)
MulAdd(l, r, d) ==
    IF Len(l) = 0 THEN (IF d = 0 THEN <<>> ELSE <<d>>)
    ELSE LET v == Head(l) * r + d
         IN <<v % Limb>> \o MulAdd(Tail(l), r, v \div Limb)

RECURSIVE Pow2(_)
Pow2(k) == IF k = 0 THEN 1 ELSE 2 * Pow2(k - 1)

RECURSIVE BitLen(_)
BitLen(v) == IF v = 0 THEN 0 ELSE 1 + BitLen(v \div 2)

\* the number of significant bits of a magnitude
BitLength(l) == IF Len(l) = 0 THEN 0 ELSE 16 * (Len(l) - 1) + BitLen(l[Len(l)])

\* bit k (from 0) of a magnitude
Bit(l, k) ==
    LET i == (k \div 16) + 1
    IN IF i > Len(l) THEN 0 ELSE (l[i] \div Pow2(k % 16)) % 2

\* the magnitude with every bit below bit s cleared
ClearBelow(l, s) ==
    [i \in 1..Len(l) |->
        IF 16 * i <= s THEN 0
        ELSE IF 16 * (i - 1) >= s THEN l[i]
        ELSE l[i] - (l[i] % Pow2(s - 16 * (i - 1)))]

RECURSIVE AddAt(_, _, _)
\* the magnitude plus v * 2^(16 * (i - 1))
AddAt(l, i, v) ==
    IF v = 0 THEN l
    ELSE IF i > Len(l) THEN AddAt(Append(l, 0), i, v)
    ELSE LET t == l[i] + v
         IN AddAt([l EXCEPT ![i] = t % Limb], i + 1, t \div Limb)

\* the width of a double's significand, and the exponent from which it overflows
SignificandBits == 53

OverflowBits == 1024

\* the double nearest to an exact magnitude: round to nearest, ties to even
ToDouble(l) ==
    LET s == BitLength(l) - SignificandBits
    IN IF s <= 0 THEN Integral(l)
       ELSE LET sticky == \E k \in 0..(s - 2) : Bit(l, k) = 1
                up == Bit(l, s - 1) = 1 /\ (sticky \/ Bit(l, s) = 1)
                t == ClearBelow(l, s)
                r == IF up THEN AddAt(t, (s \div 16) + 1, Pow2(s % 16)) ELSE t
            IN IF BitLength(Strip(r)) > OverflowBits THEN Infinity ELSE Integral(r)

RECURSIVE MagLess(_, _)
\* a < b on magnitudes
MagLess(a, b) ==
    IF Len(a) # Len(b) THEN Len(a) < Len(b)
    ELSE IF Len(a) = 0 THEN FALSE
    ELSE IF a[Len(a)] # b[Len(b)] THEN a[Len(a)] < b[Len(b)]
    ELSE MagLess(SubSeq(a, 1, Len(a) - 1), SubSeq(b, 1, Len(b) - 1))

\* |a| < |b|
AbsLess(a, b) == IF a.inf THEN FALSE ELSE IF b.inf THEN TRUE ELSE MagLess(a.limbs, b.limbs)

\* a < b as JavaScript evaluates it (false when either side is NaN; -0 equals 0)
NumLess(a, b) ==
    IF a.nan \/ b.nan THEN FALSE
    ELSE LET an == a.neg /\ ~IsZero(a)
             bn == b.neg /\ ~IsZero(b)
         IN IF an /\ ~bn THEN TRUE
            ELSE IF ~an /\ bn THEN FALSE
            ELSE IF ~an THEN AbsLess(a, b)
            ELSE AbsLess(b, a)

\* a <= b as JavaScript evaluates it
NumLeq(a, b) == ~a.nan /\ ~b.nan /\ ~NumLess(b, a)

\* ToInt32/ToUint32 bit pattern of a number: the low 32 bits, two's complement;
\* 0 for NaN and the infinities
ToUint32(x) ==
    IF x.nan \/ x.inf THEN Num(0, 0)
    ELSE IF ~x.neg THEN Num(Hi(x), Lo(x))
    ELSE IF Lo(x) = 0 THEN Num((Limb - Hi(x)) % Limb, 0)
    ELSE Num(Limb - 1 - Hi(x), Limb - Lo(x))

HARDENED == Num(32768, 0)

\* (x | HARDENED) >>> 0
OrHardened(x) ==
    LET u == ToUint32(x)
    IN Num(IF Hi(u) >= 32768 THEN Hi(u) ELSE Hi(u) + 32768, Lo(u))

\* x & ~HARDENED : the low 31 bits, as a plain integer
AndNotHardened(x) ==
    LET u == ToUint32(x)
    IN (Hi(u) % 32768) * Limb + Lo(u)

\* x & HARDENED is truthy
HasHardened(x) == Hi(ToUint32(x)) >= 32768

(***************************************************************************)
(* Number.parseInt, Number.prototype.toString, split and join.             *)
(***************************************************************************)
\* value of code unit c as a digit of the given radix, -1 when it is none
DigitValue(c, radix) ==
    IF c >= Chr("0") /\ c <= Chr("9") THEN c - Chr("0")
    ELSE IF radix = 16 /\ c >= Chr("a") /\ c <= Chr("f") THEN c - Chr("a") + 10
    ELSE IF radix = 16 /\ c >= Chr("A") /\ c <= Chr("F") THEN c - Chr("A") + 10
    ELSE -1

RECURSIVE ParseDigits(_, _, _, _)
\* consume digits of s from position i on; acc is the exact magnitude so far
ParseDigits(s, i, radix, acc) ==
    IF i > Len(s) \/ DigitValue(s[i], radix) < 0 THEN acc
    ELSE ParseDigits(s, i + 1, radix, MulAdd(acc, radix, DigitValue(s[i], radix)))

\* the white space Number.parseInt strips (StrWhiteSpaceChar): tab, line feed,
\* vertical tab, form feed, carriage return, space, no-break space, ogham
\* space mark, en quad to hair space, line and paragraph separator, narrow
\* no-break space, medium mathematical space, ideographic space, byte order mark
StrWhiteSpaceChar ==
    {9, 10, 11, 12, 13, 32, 160, 5760, 8232, 8233, 8239, 8287, 12288, 65279} \cup 8192..8202

RECURSIVE SkipSpaces(_, _)
SkipSpaces(s, i) == IF i <= Len(s) /\ s[i] \in StrWhiteSpaceChar THEN SkipSpaces(s, i + 1) ELSE i

\* Number.parseInt(s) with no radix argument: NaN when no digit is read, else
\* the double nearest to the digits' value
parseInt(s) ==
    LET i0 == SkipSpaces(s, 1)
        signed == i0 <= Len(s) /\ s[i0] \in {Chr("-"), Chr("+")}
        minus == signed /\ s[i0] = Chr("-")
        i1 == IF signed THEN i0 + 1 ELSE i0
        hex == i1 + 1 <= Len(s) /\ s[i1] = Chr("0") /\ s[i1 + 1] \in {Chr("x"), Chr("X")}
        radix == IF hex THEN 16 ELSE 10
        first == IF hex THEN i1 + 2 ELSE i1
        mag == IF first > Len(s) \/ DigitValue(s[first], radix) < 0 THEN NaN
               ELSE ToDouble(ParseDigits(s, first, radix, <<>>))
    IN IF minus THEN Negate(mag) ELSE mag

RECURSIVE toString(_)
\* Number.prototype.toString() of a non-negative integer
toString(n) ==
    IF n < 10 THEN <<Chr("0") + n>>
    ELSE Append(toString(n \div 10), Chr("0") + (n % 10))

RECURSIVE split(_, _)
\* String.prototype.split(sep) for a one-character separator
split(s, sep) ==
    LET k == IndexOf(s, sep)
    IN IF k = 0 THEN <<s>>
       ELSE <<SubSeq(s, 1, k - 1)>> \o split(SubSeq(s, k + 1, Len(s)), sep)

RECURSIVE join(_, _)
\* Array.prototype.join(sep)
join(parts, sep) ==
    IF Len(parts) = 0 THEN <<>>
    ELSE IF Len(parts) = 1 THEN parts[1]
    ELSE parts[1] \o <<sep>> \o join(Tail(parts), sep)

(***************************************************************************)
(* BIP-32 path codec.                                                      *)
(***************************************************************************)
\* `0 <= num < HARDENED` : the boolean (0 <= num) is compared with HARDENED
path_component_in_range(num) ==
    LET first == NumLeq(Num(0, 0), num)
    IN NumLess(IF first THEN Num(0, 1) ELSE Num(0, 0), HARDENED)

RECURSIVE path2strItems_unmarked(_)
\* path2str that drops the hardening marker
path2strItems_unmarked(path) ==
    IF Len(path) = 0 THEN <<>>
    ELSE <<toString(AndNotHardened(Head(path)))>> \o path2strItems_unmarked(Tail(path))

RECURSIVE path2strItems(_)
\* the loop of path2str: one text item per path element
path2strItems(path) ==
    IF Len(path) = 0 THEN <<>>
    ELSE <<toString(AndNotHardened(Head(path)))
             \o (IF HasHardened(Head(path)) THEN Text(<<"h">>) ELSE <<>>)>>
         \o path2strItems(Tail(path))

path2str(path) == join(<<Text(<<"m">>)>> \o path2strItems(path), Chr("/"))

\* the characters of "'phHP"
HardenedMarks == Range(Text(<<"'", "p", "h", "H", "P">>))

RECURSIVE str2pathLoop(_, _)
\* the loop over the split components; rv is the path built so far
str2pathLoop(items, rv) ==
    IF Len(items) = 0 THEN Returned(rv)
    ELSE LET item == Head(items)
             rest == Tail(items)
         IN IF item = Text(<<"m">>) THEN str2pathLoop(rest, rv)
            ELSE IF Len(item) = 0 THEN str2pathLoop(rest, rv)
            ELSE IF item[Len(item)] \in HardenedMarks
            THEN IF Len(item) < 2 THEN Thrown("Malformed bip32 path component")
                 ELSE LET num == parseInt(SubSeq(item, 1, Len(item) - 1))
                      IN IF ~path_component_in_range(num)
                         THEN Thrown("Hardened path component out of range")
                         ELSE str2pathLoop(rest, Append(rv, OrHardened(num)))
            ELSE LET here == parseInt(item)
                 IN IF ~path_component_in_range(here)
                    THEN Thrown("Non-hardened path component out of range")
                    ELSE str2pathLoop(rest, Append(rv, here))

str2path(path) == str2pathLoop(split(path, Chr("/")), <<>>)

(***************************************************************************)
(* Nonce generator.                                                        *)
(***************************************************************************)
USER_NONCE_SIZE == 16

CARD_NONCE_SIZE == 16

num_of_retry == 3

\* buf[i] of a Buffer: the byte, or undefined (-1) outside 0..length-1
At(buf, i) == IF i >= 0 /\ i < Len(buf) THEN buf[i + 1] ELSE -1

RECURSIVE pick_nonce_loop(_, _)
\* draws[i] is what randomBytes(USER_NONCE_SIZE) yields on attempt i
pick_nonce_loop(draws, i) ==
    IF i > num_of_retry THEN Undefined
    ELSE LET rv == draws[i]
             rvSet == Range(rv)
         IN IF At(rv, 0) # At(rv, -1) \/ Cardinality(rvSet) >= 2
            THEN Returned(rv)
            ELSE pick_nonce_loop(draws, i + 1)

pick_nonce(draws) == pick_nonce_loop(draws, 1)

(***************************************************************************)
(* Inputs of the path codec and of the nonce generator.                    *)
(***************************************************************************)
\* characters outside ASCII: e-acute (2 bytes in UTF-8) and the euro sign (3 bytes)
EAcute == 233

Euro == 8364

\* the last six: a tab, a space and a line feed, and an em space before the
\* digits; a euro sign before them; 2^53 + 1, which no double holds
PathComponents ==
    { Text(<<"0">>), Text(<<"8", "4">>), Text(<<"8", "4", "h">>), Text(<<"1", "'">>), Text(<<"0", "P">>),
      Text(<<"2", "1", "4", "7", "4", "8", "3", "6", "4", "7">>),
      Text(<<"2", "1", "4", "7", "4", "8", "3", "6", "4", "7", "h">>),
      Text(<<"2", "1", "4", "7", "4", "8", "3", "6", "4", "8">>),
      Text(<<"2", "1", "4", "7", "4", "8", "3", "6", "4", "8", "h">>),
      Text(<<"4", "2", "9", "4", "9", "6", "7", "2", "9", "6">>),
      Text(<<"-", "1">>), Text(<<"-", "1", "h">>), Text(<<"a", "b", "c">>), Text(<<"x", "h">>),
      Text(<<"0", "x", "1", "0">>), Text(<<"h">>), <<>>, Text(<<"m">>),
      <<9>> \o Text(<<"5">>), <<32, 10>> \o Text(<<"7", "h">>), <<8195>> \o Text(<<"5">>),
      <<Euro>> \o Text(<<"5">>),
      Text(<<"9", "0", "0", "7", "1", "9", "9", "2", "5", "4", "7", "4", "0", "9", "9", "3">>),
      Text(<<"9", "0", "0", "7", "1", "9", "9", "2", "5", "4", "7", "4", "0", "9", "9", "3", "h">>) }

PathStrings ==
    { join(<<Text(<<"m">>)>> \o comps, Chr("/")) : comps \in SeqsUpTo(PathComponents, MaxPathLen) }

\* 32-bit path elements: a 31-bit index, optionally with the hardened flag
PathElements ==
    { Num(0, 0), Num(0, 84), Num(32767, 65535), Num(1, 0),
      Num(32768, 0), Num(32768, 84), Num(65535, 65535), Num(32769, 0) }

WellFormedPaths == SeqsUpTo(PathElements, MaxPathLen)

NonceDraws ==
    { Fill(USER_NONCE_SIZE, 0), Fill(USER_NONCE_SIZE, 7),
      [i \in 1..USER_NONCE_SIZE |-> IF i = 1 THEN 1 ELSE 0],
      [i \in 1..USER_NONCE_SIZE |-> IF i \in {1, USER_NONCE_SIZE} THEN 5 ELSE 9],
      [i \in 1..USER_NONCE_SIZE |-> i - 1],
      [i \in 1..USER_NONCE_SIZE |-> IF i = USER_NONCE_SIZE THEN 255 ELSE 0] }

(***************************************************************************)
(* Buffers are sequences of bytes.  The crypto primitives of ./compat are  *)
(* opaque collaborators; they are modelled symbolically over a fixed world *)
(* of keys and of the signatures those keys have produced.                 *)
(***************************************************************************)
Null == <<>>

\* JavaScript's null: it differs from every string and every Buffer
null == [isNull |-> TRUE]

\* A value that may be a string or a Buffer is a record: a string holds its
\* characters, a Buffer holds its bytes.
String(chars) == [isString |-> TRUE, data |-> chars]

Buffer(bytes) == [isString |-> FALSE, data |-> bytes]

\* foo.length: UTF-16 units of a string, bytes of a Buffer
length(foo) == Len(foo.data)

\* the condition `foo ? .. : ..` / `if (foo)` of a value that is null, a string
\* or a Buffer: null and the empty string are falsy, every Buffer is truthy
truthy(foo) == foo # null /\ (foo.isString => foo.data # <<>>)

\* the value of a code unit as a hex digit: the decoder looks at the low byte
\* of the code unit only
unhex(c) == DigitValue(c % 256, 16)

\* the bytes Buffer.from(chars, 'hex') decodes: two hex digits a byte, up to
\* the first pair that is not two hex digits
hexWrite(chars) ==
    LET pairs == Len(chars) \div 2
        bad == {i \in 1..pairs : unhex(chars[2 * i - 1]) < 0 \/ unhex(chars[2 * i]) < 0}
        n == IF bad = {} THEN pairs ELSE (CHOOSE i \in bad : \A j \in bad : i <= j) - 1
    IN [i \in 1..n |-> 16 * unhex(chars[2 * i - 1]) + unhex(chars[2 * i])]

\* Buffer.from(foo, 'hex'): a string is decoded, a Buffer is copied
BufferFromHex(foo) == Buffer(IF foo.isString THEN hexWrite(foo.data) ELSE foo.data)

OPENDIME == <<79, 80, 69, 78, 68, 73, 77, 69>>

\* a 33-byte compressed public key
Key(prefix, b) == <<prefix>> \o Fill(32, b)

\* sha256s(m): a 32-byte digest, kept symbolically as the message it hashes
sha256s(m) == [len |-> 32, sha256 |-> m]

Root1 == Key(3, 1)

Root2 == Key(2, 2)

\* the trusted factory root key set
FACTORY_ROOT_KEYS == <<Root1, Root2>>

Batch == Key(2, 16)

CardA == Key(3, 32)

CardF == Key(2, 48)

Rogue == Key(3, 64)

SlotKey == Key(2, 80)

N1 == Fill(CARD_NONCE_SIZE, 17)

M1 == Fill(USER_NONCE_SIZE, 34)

M2 == Fill(USER_NONCE_SIZE, 35)

\* a signature the world holds: the 64 bytes r||s, the recovery id that
\* yields the signer, the digest it signs and the signer's public key
Signed(b, rid, digest, signer) ==
    [sig |-> Fill(64, b), rid |-> rid, digest |-> digest, signer |-> signer]

AuthSignatures ==
    { Signed(161, 0, sha256s(OPENDIME \o N1 \o M1), CardA),
      Signed(162, 1, sha256s(OPENDIME \o N1 \o M1 \o SlotKey), CardA),
      Signed(163, 0, sha256s(OPENDIME \o N1 \o M1), CardF) }

CertSignatures ==
    { Signed(193, 0, sha256s(CardA), Batch),
      Signed(194, 1, sha256s(Batch), Root1),
      Signed(195, 0, sha256s(Batch), Root2),
      Signed(196, 1, sha256s(CardF), Rogue),
      Signed(197, 0, sha256s(CardA), Root1) }

\* a digest signed by nothing in the protocol: the input of make_recoverable_sig
Digest1 == sha256s(<<1>>)

KeyP == Key(2, 96)

KeyQ == Key(3, 112)

MessageSignatures ==
    { Signed(209, 0, Digest1, KeyP),
      Signed(210, 1, Digest1, KeyP),
      Signed(211, 3, Digest1, KeyQ),
      Signed(212, 1, Digest1, KeyQ),
      Signed(213, 2, Digest1, KeyQ) }

\* (r||s, recovery id) pairs for which no curve point exists: recovery throws
RecoveryFails ==
    { <<Fill(64, 198), 0>>, <<Fill(64, 198), 1>>, <<Fill(64, 198), 2>>, <<Fill(64, 198), 3>>,
      <<Fill(64, 209), 2>>, <<Fill(64, 209), 3>>,
      <<Fill(64, 210), 2>>, <<Fill(64, 210), 3>>,
      <<Fill(64, 211), 2>>,
      <<Fill(64, 212), 0>>, <<Fill(64, 212), 3>>,
      <<Fill(64, 213), 0>>, <<Fill(64, 213), 1>>,
      <<Fill(64, 214), 0>>, <<Fill(64, 214), 1>>, <<Fill(64, 214), 2>>, <<Fill(64, 214), 3>> }

KeyT == Key(3, 144)

SesKey == Fill(32, 90)

\* the card's answers to a read command with nonces N1, M1 and slot 0
ResponseSignatures ==
    { Signed(177, 0, sha256s(OPENDIME \o N1 \o M1 \o <<0>>), KeyT),
      Signed(178, 0, sha256s(OPENDIME \o N1 \o M1 \o <<0>>), SlotKey),
      Signed(179, 1, sha256s(OPENDIME \o N1 \o M1 \o <<0>>), Key(2, 81)),
      Signed(180, 0, sha256s(OPENDIME \o N1 \o M1 \o <<0>>), KeyP) }

ChainCode == Fill(32, 204)

\* the card's answer to a deriv command with nonces N1, M1
MasterSignatures ==
    { Signed(182, 0, sha256s(OPENDIME \o N1 \o M1 \o ChainCode), KeyT) }

Signatures ==
    AuthSignatures \cup CertSignatures \cup MessageSignatures \cup ResponseSignatures
        \cup MasterSignatures

\* the key recovery yields when the signature is not one over this digest
JunkKey(rid) == Key(2 + (rid % 2), 224 + rid)

\* CT_sig_verify(sig, msg_digest, pub): plain ECDSA verification
CT_sig_verify(sig, digest, pub) ==
    /\ Len(sig) = 64
    /\ Len(pub) = 33
    /\ \E w \in Signatures : w.sig = sig /\ w.digest = digest /\ w.signer = pub

\* CT_sig_to_pubkey(digest, rec_sig): recovery from a 65-byte recoverable
\* signature (header byte || r||s); Null stands for a thrown failure
CT_sig_to_pubkey(digest, rec_sig) ==
    IF Len(rec_sig) # 65 \/ digest.len # 32 \/ rec_sig[1] < 27 \/ rec_sig[1] > 42 THEN Null
    ELSE LET rid == (rec_sig[1] - 27) % 4
             body == Tail(rec_sig)
             made == {w \in Signatures : w.sig = body /\ w.rid = rid /\ w.digest = digest}
         IN IF <<body, rid>> \in RecoveryFails THEN Null
            ELSE IF made # {} THEN (CHOOSE w \in made : TRUE).signer
            ELSE JunkKey(rid)

\* a certificate of the chain: the recoverable form of a world signature
Cert(b, rid) == <<39 + rid>> \o Fill(64, b)

RECURSIVE BufferCompare(_, _)
\* Buffer.compare(a, b): -1, 0 or 1
BufferCompare(a, b) ==
    IF Len(a) = 0 /\ Len(b) = 0 THEN 0
    ELSE IF Len(a) = 0 THEN -1
    ELSE IF Len(b) = 0 THEN 1
    ELSE IF Head(a) < Head(b) THEN -1
    ELSE IF Head(a) > Head(b) THEN 1
    ELSE BufferCompare(Tail(a), Tail(b))

\* entries of the trace of primitive calls a function makes
Verified(sig, digest, pub) == [op |-> "CT_sig_verify", sig |-> sig, digest |-> digest, pub |-> pub]

Recovered(sig, digest, pub) == [op |-> "CT_sig_to_pubkey", sig |-> sig, digest |-> digest, pub |-> pub]

Compared(pub) == [op |-> "Buffer.compare", sig |-> Null, digest |-> sha256s(Null), pub |-> pub]

\* what a function hands back to the action: its outcome and its trace
Done(o, t) == [outcome |-> o, ops |-> t]

(***************************************************************************)
(* Certificate chain verifier.                                             *)
(***************************************************************************)
\* `slot_pubkey = slot_pubkey ? Buffer.from(slot_pubkey, 'hex') : slot_pubkey`
slot_pubkey_bytes(slot_pubkey) ==
    IF truthy(slot_pubkey) THEN BufferFromHex(slot_pubkey) ELSE slot_pubkey

RECURSIVE follow_chain(_, _, _, _)
\* `for (let i in cert_chain) pubkey = CT_sig_to_pubkey(sha256s(pubkey), cert_chain[i])`
follow_chain(cert_chain, i, pubkey, t) ==
    IF i > Len(cert_chain) THEN Done(Returned(pubkey), t)
    ELSE LET got == CT_sig_to_pubkey(sha256s(pubkey), cert_chain[i])
             t2 == Append(t, Recovered(cert_chain[i], sha256s(pubkey), got))
         IN IF got = Null THEN Done(Thrown("signature recovery failed"), t2)
            ELSE follow_chain(cert_chain, i + 1, got, t2)

\* check_root without the comparison: every walked key is returned
check_root_unchecked(pubkey, t) == Done(Returned(pubkey), Append(t, Compared(pubkey)))

\* the comparison of the walked key with the factory root, and the return
check_root(pubkey, t) ==
    LET t2 == Append(t, Compared(pubkey))
    IN IF BufferCompare(pubkey, FACTORY_ROOT_KEYS[1]) # 0
       THEN Done(Thrown("Root cert is not from Coinkite. Card is counterfeit."), t2)
       ELSE Done(Returned(pubkey), t2)

\* verify_certs_ll that walks the chain whatever the authentication check said
verify_certs_ll_unauthenticated(card_nonce, card_pubkey, my_nonce, cert_chain, signature, slot_pubkey) ==
    IF Len(cert_chain) < 2 THEN Done(Thrown("Missing certs"), <<>>)
    ELSE LET msg0 == OPENDIME \o card_nonce \o my_nonce
             slot == slot_pubkey_bytes(slot_pubkey)
         IN IF Len(msg0) # 8 + CARD_NONCE_SIZE + USER_NONCE_SIZE
            THEN Done(Thrown("Invalid message length"), <<>>)
            ELSE IF truthy(slot) /\ length(slot) # 33
            THEN Done(Thrown("Invalid slot pubkey length"), <<>>)
            ELSE LET msg == IF truthy(slot) THEN msg0 \o slot.data ELSE msg0
                     t == <<Verified(signature, sha256s(msg), card_pubkey)>>
                     walk == follow_chain(cert_chain, 1, card_pubkey, t)
                 IN IF walk.outcome.status # "ok" THEN walk
                    ELSE check_root(walk.outcome.value, walk.ops)

\* verify_certs_ll that is content with a chain of one link
verify_certs_ll_onelink(card_nonce, card_pubkey, my_nonce, cert_chain, signature, slot_pubkey) ==
    IF Len(cert_chain) < 1 THEN Done(Thrown("Missing certs"), <<>>)
    ELSE LET msg0 == OPENDIME \o card_nonce \o my_nonce
             slot == slot_pubkey_bytes(slot_pubkey)
         IN IF Len(msg0) # 8 + CARD_NONCE_SIZE + USER_NONCE_SIZE
            THEN Done(Thrown("Invalid message length"), <<>>)
            ELSE IF truthy(slot) /\ length(slot) # 33
            THEN Done(Thrown("Invalid slot pubkey length"), <<>>)
            ELSE LET msg == IF truthy(slot) THEN msg0 \o slot.data ELSE msg0
                     ok == CT_sig_verify(signature, sha256s(msg), card_pubkey)
                     t == <<Verified(signature, sha256s(msg), card_pubkey)>>
                 IN IF ~ok THEN Done(Thrown("bad sig in when verifying certificates"), t)
                    ELSE LET walk == follow_chain(cert_chain, 1, card_pubkey, t)
                         IN IF walk.outcome.status # "ok" THEN walk
                            ELSE check_root(walk.outcome.value, walk.ops)

verify_certs_ll(card_nonce, card_pubkey, my_nonce, cert_chain, signature, slot_pubkey) ==
    IF Len(cert_chain) < 2 THEN Done(Thrown("Missing certs"), <<>>)
    ELSE LET msg0 == OPENDIME \o card_nonce \o my_nonce
             slot == slot_pubkey_bytes(slot_pubkey)
         IN IF Len(msg0) # 8 + CARD_NONCE_SIZE + USER_NONCE_SIZE
            THEN Done(Thrown("Invalid message length"), <<>>)
            ELSE IF truthy(slot) /\ length(slot) # 33
            THEN Done(Thrown("Invalid slot pubkey length"), <<>>)
            ELSE LET msg == IF truthy(slot) THEN msg0 \o slot.data ELSE msg0
                     ok == CT_sig_verify(signature, sha256s(msg), card_pubkey)
                     t == <<Verified(signature, sha256s(msg), card_pubkey)>>
                 IN IF ~ok THEN Done(Thrown("bad sig in when verifying certificates"), t)
                    ELSE LET walk == follow_chain(cert_chain, 1, card_pubkey, t)
                         IN IF walk.outcome.status # "ok" THEN walk
                            ELSE check_root(walk.outcome.value, walk.ops)

verify_certs(status_resp, check_resp, certs_resp, my_nonce, slot_pubkey) ==
    verify_certs_ll(status_resp.card_nonce, status_resp.pubkey, my_nonce,
                    certs_resp.cert_chain, check_resp.auth_sig,
                    IF status_resp.ver = "0.9.0" THEN null ELSE slot_pubkey)

(***************************************************************************)
(* Response recovery: key recovery and address recovery.                   *)
(***************************************************************************)
ADDR_TRIM == 12

RECURSIVE XorByte(_, _)
XorByte(a, b) == IF a = 0 /\ b = 0 THEN 0 ELSE ((a + b) % 2) + 2 * XorByte(a \div 2, b \div 2)

\* xor_bytes(a, b); Null stands for the thrown length mismatch
xor_bytes(a, b) ==
    IF Len(a) # Len(b) THEN Null ELSE [i \in 1..Len(a) |-> XorByte(a[i], b[i])]

\* String/Buffer slice(start, end) with JavaScript's negative and clamped indices
slice(s, start, end) ==
    LET norm(k) == IF k < 0 THEN (IF Len(s) + k < 0 THEN 0 ELSE Len(s) + k)
                   ELSE IF k > Len(s) THEN Len(s) ELSE k
    IN SubSeq(s, norm(start) + 1, norm(end))

\* s.indexOf(c) and s.lastIndexOf(c): 0-based, -1 when absent
indexOf(s, c) == IndexOf(s, c) - 1

lastIndexOf(s, c) ==
    IF c \in Range(s) THEN (CHOOSE i \in 1..Len(s) : s[i] = c /\ \A j \in (i + 1)..Len(s) : s[j] # c) - 1
    ELSE -1

Bech32Charset == Text(<<"q", "p", "z", "r", "y", "9", "x", "8", "g", "f", "2", "t", "v", "d", "w", "0">>)

\* CT_priv_to_pubkey(priv): the public key of a 32-byte private key
CT_priv_to_pubkey(priv) == Key(2 + (priv[1] % 2), priv[1])

\* bech32.encode(HRP, [0] ++ toWords(hash160(pubkey))): an address whose
\* characters are determined by the key (30 characters in this world)
bech32_address(hrp, pubkey) ==
    hrp \o Text(<<"1", "q">>)
        \o Fill(8, Bech32Charset[((pubkey[2] \div 16) % 16) + 1])
        \o Fill(6, Bech32Charset[(pubkey[1] % 16) + 1])
        \o Fill(12, Bech32Charset[(pubkey[2] % 16) + 1])

render_address(pubkey, testnet) ==
    LET pub == IF Len(pubkey) = 32 THEN CT_priv_to_pubkey(pubkey) ELSE pubkey
        HRP == IF ~testnet THEN Text(<<"b", "c">>) ELSE Text(<<"t", "b">>)
    IN bech32_address(HRP, pub)

recover_pubkey(status_resp, read_resp, my_nonce, ses_key) ==
    IF ~status_resp.is_tapsigner THEN Done(Thrown("Card is not a Tapsigner"), <<>>)
    ELSE LET msg == OPENDIME \o status_resp.card_nonce \o my_nonce \o <<0>>
         IN IF Len(msg) # 8 + CARD_NONCE_SIZE + USER_NONCE_SIZE + 1
            THEN Done(Thrown("Invalid message length"), <<>>)
            ELSE LET body == xor_bytes(slice(read_resp.pubkey, 1, Len(read_resp.pubkey)), ses_key)
                     pubkey == slice(read_resp.pubkey, 0, 1) \o body
                     ok == CT_sig_verify(pubkey, sha256s(msg), read_resp.sig)
                     t == <<Verified(pubkey, sha256s(msg), read_resp.sig)>>
                 IN IF Len(slice(read_resp.pubkey, 1, Len(read_resp.pubkey))) # Len(ses_key)
                    THEN Done(Thrown("Length mismatch: Expected same lengths at xor_bytes"), <<>>)
                    ELSE IF ~ok THEN Done(Thrown("Bad sig in recover_pubkey"), t)
                    ELSE Done(Returned(pubkey), t)

\* recover_address without the trim-length policy check
recover_address_untrimmed(status_resp, read_resp, my_nonce) ==
    IF status_resp.is_tapsigner THEN Done(Thrown("recover_address: tapsigner not supported"), <<>>)
    ELSE LET sl == status_resp.slots[1]
             msg == OPENDIME \o status_resp.card_nonce \o my_nonce \o <<sl % 256>>
         IN IF Len(msg) # 8 + CARD_NONCE_SIZE + USER_NONCE_SIZE + 1
            THEN Done(Thrown("recover_address: invalid message length"), <<>>)
            ELSE LET pubkey == read_resp.pubkey
                     ok == CT_sig_verify(read_resp.sig, sha256s(msg), pubkey)
                     t == <<Verified(read_resp.sig, sha256s(msg), pubkey)>>
                     expect == status_resp.addr
                     left == slice(expect, 0, indexOf(expect, Chr("_")))
                     right == slice(expect, lastIndexOf(expect, Chr("_")) + 1, Len(expect))
                     addr == render_address(pubkey, FALSE)
                 IN IF ~ok THEN Done(Thrown("Bad sig in recover_address"), t)
                    ELSE IF ~(/\ startsWith(addr, left)
                              /\ endsWith(addr, right)
                              /\ Len(left) = Len(right))
                    THEN Done(Thrown("Corrupt response"), t)
                    ELSE Done(Returned([pubkey |-> pubkey, addr |-> addr]), t)

recover_address(status_resp, read_resp, my_nonce) ==
    IF status_resp.is_tapsigner THEN Done(Thrown("recover_address: tapsigner not supported"), <<>>)
    ELSE LET sl == status_resp.slots[1]
             msg == OPENDIME \o status_resp.card_nonce \o my_nonce \o <<sl % 256>>
         IN IF Len(msg) # 8 + CARD_NONCE_SIZE + USER_NONCE_SIZE + 1
            THEN Done(Thrown("recover_address: invalid message length"), <<>>)
            ELSE LET pubkey == read_resp.pubkey
                     ok == CT_sig_verify(read_resp.sig, sha256s(msg), pubkey)
                     t == <<Verified(read_resp.sig, sha256s(msg), pubkey)>>
                     expect == status_resp.addr
                     left == slice(expect, 0, indexOf(expect, Chr("_")))
                     right == slice(expect, lastIndexOf(expect, Chr("_")) + 1, Len(expect))
                     addr == render_address(pubkey, FALSE)
                 IN IF ~ok THEN Done(Thrown("Bad sig in recover_address"), t)
                    ELSE IF ~(/\ startsWith(addr, left)
                              /\ endsWith(addr, right)
                              /\ Len(left) = Len(right)
                              /\ Len(left) = ADDR_TRIM)
                    THEN Done(Thrown("Corrupt response"), t)
                    ELSE Done(Returned([pubkey |-> pubkey, addr |-> addr]), t)

\* verify_master_pubkey without the length check of the message
verify_master_pubkey_unframed(pub, sig, chain_code, my_nonce, card_nonce) ==
    LET msg == OPENDIME \o card_nonce \o my_nonce \o chain_code
        ok == CT_sig_verify(sig, sha256s(msg), pub)
        t == <<Verified(sig, sha256s(msg), pub)>>
    IN IF ~ok THEN Done(Thrown("verify_master_pubkey: bad sig in verify_master_pubkey"), t)
       ELSE Done(Returned(pub), t)

verify_master_pubkey(pub, sig, chain_code, my_nonce, card_nonce) ==
    LET msg == OPENDIME \o card_nonce \o my_nonce \o chain_code
    IN IF Len(msg) # 8 + CARD_NONCE_SIZE + USER_NONCE_SIZE + 32
       THEN Done(Thrown("verify_master_pubkey: invalid message length"), <<>>)
       ELSE LET ok == CT_sig_verify(sig, sha256s(msg), pub)
                t == <<Verified(sig, sha256s(msg), pub)>>
            IN IF ~ok THEN Done(Thrown("verify_master_pubkey: bad sig in verify_master_pubkey"), t)
               ELSE Done(Returned(pub), t)

(***************************************************************************)
(* Recoverable signature reconstructor.                                    *)
(***************************************************************************)
RECURSIVE make_recoverable_sig_loop(_, _, _, _, _, _, _)
\* addr is null or a String, expect_pubkey is null or a Buffer
\* the loop `for (var rec_id = 0; rec_id < 4; rec_id++)`
make_recoverable_sig_loop(digest, sig, addr, expect_pubkey, is_testnet, rec_id, t) ==
    IF rec_id >= 4 THEN Done(Thrown("sig may not be created by that address/pubkey??"), t)
    ELSE LET rec_sig == <<39 + rec_id>> \o sig
             pubkey == CT_sig_to_pubkey(digest, rec_sig)
             t2 == Append(t, Recovered(rec_sig, digest, pubkey))
             next == make_recoverable_sig_loop(digest, sig, addr, expect_pubkey, is_testnet,
                                               rec_id + 1, t2)
             t3 == Append(t2, Compared(pubkey))
             more == make_recoverable_sig_loop(digest, sig, addr, expect_pubkey, is_testnet,
                                               rec_id + 1, t3)
         IN IF pubkey = Null /\ rec_id >= 2 THEN next
            \* a failure for rec_id 0 or 1 is caught and dropped: pubkey stays undefined
            ELSE IF truthy(expect_pubkey) /\ pubkey = Null
            THEN Done(Thrown("TypeError"), t2)   \* Buffer.from(undefined)
            ELSE IF truthy(expect_pubkey) /\ BufferCompare(expect_pubkey.data, pubkey) # 0
            THEN more
            ELSE LET t4 == IF truthy(expect_pubkey) THEN t3 ELSE t2
                     last == make_recoverable_sig_loop(digest, sig, addr, expect_pubkey,
                                                       is_testnet, rec_id + 1, t4)
                 \* `if (addr)`: null and the empty string are falsy
                 IN IF truthy(addr)
                    THEN IF pubkey = Null THEN Done(Thrown("TypeError"), t4)   \* undefined.length
                         ELSE IF endsWith(render_address(pubkey, is_testnet), addr.data)
                         THEN Done(Returned(rec_sig), t4)
                         ELSE last
                    ELSE Done(Returned(rec_sig), t4)

make_recoverable_sig(digest, sig, addr, expect_pubkey, is_testnet) ==
    IF digest.len # 32 THEN Done(Thrown("Invalid digest length"), <<>>)
    ELSE IF Len(sig) # 64 THEN Done(Thrown("Invalid sig length"), <<>>)
    ELSE make_recoverable_sig_loop(digest, sig, addr, expect_pubkey, is_testnet, 0, <<>>)

(***************************************************************************)
(* Session key derivation.                                                 *)
(***************************************************************************)
HighSurrogates == 55296..56319

LowSurrogates == 56320..57343

RECURSIVE Utf8(_)
\* Buffer.from(string): the UTF-8 bytes of the code units; a surrogate pair is
\* one character of 4 bytes, a lone surrogate becomes U+FFFD
Utf8(units) ==
    IF Len(units) = 0 THEN <<>>
    ELSE LET u == Head(units)
         IN IF u < 128 THEN <<u>> \o Utf8(Tail(units))
            ELSE IF u < 2048 THEN <<192 + (u \div 64), 128 + (u % 64)>> \o Utf8(Tail(units))
            ELSE IF u \in HighSurrogates /\ Len(units) >= 2 /\ units[2] \in LowSurrogates
            THEN LET cp == 65536 + (u - 55296) * 1024 + (units[2] - 56320)
                 IN <<240 + (cp \div 262144), 128 + ((cp \div 4096) % 64),
                      128 + ((cp \div 64) % 64), 128 + (cp % 64)>>
                        \o Utf8(Tail(Tail(units)))
            ELSE IF u \in HighSurrogates \cup LowSurrogates
            THEN <<239, 191, 189>> \o Utf8(Tail(units))
            ELSE <<224 + (u \div 4096), 128 + ((u \div 64) % 64), 128 + (u % 64)>>
                     \o Utf8(Tail(units))

force_bytes(foo) == IF foo.isString THEN Utf8(foo.data) ELSE foo.data

RECURSIVE ByteSum(_)
ByteSum(m) == IF Len(m) = 0 THEN 0 ELSE (Head(m) + ByteSum(Tail(m))) % 256

\* the bytes of a digest
DigestBytes(d) == [i \in 1..d.len |-> (ByteSum(d.sha256) + 31 * i + Len(d.sha256)) % 256]

\* CT_pick_keypair(): the key pair of a freshly drawn private key
CT_pick_keypair(priv) == [priv |-> priv, pub |-> CT_priv_to_pubkey(priv)]

\* CT_ecdh(his_pubkey, my_privkey): sha256 of the compressed shared point
CT_ecdh(his_pubkey, my_privkey) ==
    DigestBytes(sha256s(Key(2, XorByte(his_pubkey[2], my_privkey[1]))))

\* drawn is the private key CT_pick_keypair draws in this call
calc_xcvc(cmd, card_nonce, his_pubkey, cvc, drawn) ==
    IF length(cvc) < 6 \/ length(cvc) > 32 THEN Done(Thrown("Invalid cvc length"), <<>>)
    ELSE LET cvcBytes == force_bytes(cvc)
             pair == CT_pick_keypair(drawn)
             session_key == CT_ecdh(his_pubkey, pair.priv)
             message == card_nonce \o Utf8(cmd.data)
             md == DigestBytes(sha256s(message))
             mask == slice(xor_bytes(session_key, md), 0, Len(cvcBytes))
             xcvc == xor_bytes(cvcBytes, mask)
         IN IF Len(cvcBytes) # Len(mask)
            THEN Done(Thrown("Length mismatch: Expected same lengths at xor_bytes"), <<>>)
            ELSE Done(Returned([sk |-> session_key,
                                ag |-> [epubkey |-> pair.pub, xcvc |-> xcvc]]), <<>>)

(***************************************************************************)
(* The state machine: one call from the idle state.                        *)
(***************************************************************************)
Init ==
    /\ call = "idle"
    /\ input = <<>>
    /\ outcome = Undefined
    /\ ops = <<>>

Call_pick_nonce ==
    /\ call = "idle"
    /\ \E draws \in [1..num_of_retry -> NonceDraws] :
         /\ call' = "pick_nonce"
         /\ input' = [draws |-> draws]
         /\ outcome' = pick_nonce(draws)
         /\ ops' = <<>>

Call_str2path ==
    /\ call = "idle"
    /\ \E path \in PathStrings :
         /\ call' = "str2path"
         /\ input' = [path |-> path]
         /\ outcome' = str2path(path)
         /\ ops' = <<>>

Call_path2str ==
    /\ call = "idle"
    /\ \E path \in WellFormedPaths :
         /\ call' = "path2str"
         /\ input' = [path |-> path]
         /\ outcome' = Returned(path2str(path))
         /\ ops' = <<>>

\* str2path(path2str(p))
Call_roundtrip ==
    /\ call = "idle"
    /\ \E path \in WellFormedPaths :
         /\ call' = "roundtrip"
         /\ input' = [path |-> path]
         /\ outcome' = str2path(path2str(path))
         /\ ops' = <<>>

CertChains ==
    SeqsUpTo({Cert(193, 0), Cert(194, 1), Cert(195, 0), Cert(196, 1), Cert(197, 0), Cert(198, 0)},
             MaxChain)

\* the hexadecimal text of SlotKey
SlotKeyHex == Text(<<"0", "2">>) \o [i \in 1..64 |-> IF i % 2 = 1 THEN Chr("5") ELSE Chr("0")]

\* the same text in characters above U+00FF whose low bytes are the hex digits
SlotKeyHexWide == [i \in 1..Len(SlotKeyHex) |-> SlotKeyHex[i] + 256]

SlotInputs ==
    { null, Buffer(SlotKey), Buffer(Fill(32, 80)), Buffer(<<>>),
      String(SlotKeyHex), String(SlotKeyHexWide), String(Fill(33, Chr("z"))), String(<<>>) }

Call_verify_certs ==
    /\ call = "idle"
    /\ \E ver \in {"0.9.0", "1.0.0"}, card_nonce \in {N1, Fill(CARD_NONCE_SIZE - 1, 17)},
          pubkey \in {CardA, CardF}, auth_sig \in {Fill(64, 161), Fill(64, 162), Fill(64, 163)},
          cert_chain \in CertChains, my_nonce \in {M1, M2, Fill(USER_NONCE_SIZE + 1, 34)},
          slot_pubkey \in SlotInputs :
         LET status_resp == [ver |-> ver, card_nonce |-> card_nonce, pubkey |-> pubkey]
             check_resp == [auth_sig |-> auth_sig]
             certs_resp == [cert_chain |-> cert_chain]
             r == verify_certs(status_resp, check_resp, certs_resp, my_nonce, slot_pubkey)
         IN /\ call' = "verify_certs"
            /\ input' = [status_resp |-> status_resp, check_resp |-> check_resp,
                         certs_resp |-> certs_resp, my_nonce |-> my_nonce,
                         slot_pubkey |-> slot_pubkey]
            /\ outcome' = r.outcome
            /\ ops' = r.ops

\* the key as the card sends it: every byte after the first masked with the session key
Masked(key, ses_key) == <<key[1]>> \o [i \in 1..32 |-> XorByte(key[i + 1], ses_key[i])]

Call_recover_pubkey ==
    /\ call = "idle"
    /\ \E is_tapsigner \in BOOLEAN, card_nonce \in {N1, Fill(CARD_NONCE_SIZE + 1, 17)},
          pubkey \in {Masked(KeyT, SesKey), Masked(SlotKey, SesKey), KeyT, Fill(32, 144)},
          sig \in {Fill(64, 177), Fill(64, 178), Fill(64, 181)},
          my_nonce \in {M1, M2, Fill(USER_NONCE_SIZE - 1, 34)},
          ses_key \in {SesKey, Fill(32, 91), Fill(31, 90)} :
         LET status_resp == [is_tapsigner |-> is_tapsigner, card_nonce |-> card_nonce]
             read_resp == [pubkey |-> pubkey, sig |-> sig]
             r == recover_pubkey(status_resp, read_resp, my_nonce, ses_key)
         IN /\ call' = "recover_pubkey"
            /\ input' = [status_resp |-> status_resp, read_resp |-> read_resp,
                         my_nonce |-> my_nonce, ses_key |-> ses_key]
            /\ outcome' = r.outcome
            /\ ops' = r.ops

\* a card-reported address: the first l and the last r characters of a, around seps
Trimmed(a, l, seps, r) == SubSeq(a, 1, l) \o seps \o SubSeq(a, Len(a) - r + 1, Len(a))

ExpectedAddrs ==
    LET a == render_address(SlotKey, FALSE)
        b == render_address(KeyP, FALSE)
    IN { Trimmed(a, ADDR_TRIM, Text(<<"_", "_", "_">>), ADDR_TRIM),
         Trimmed(a, ADDR_TRIM, Text(<<"_">>), ADDR_TRIM),
         Trimmed(a, ADDR_TRIM, Text(<<"_", "z", "_">>), ADDR_TRIM),
         Trimmed(a, ADDR_TRIM - 1, Text(<<"_", "_", "_">>), ADDR_TRIM - 1),
         Trimmed(a, ADDR_TRIM + 1, Text(<<"_", "_", "_">>), ADDR_TRIM + 1),
         Trimmed(a, ADDR_TRIM, Text(<<"_", "_", "_">>), ADDR_TRIM - 1),
         Trimmed(a, ADDR_TRIM - 1, Text(<<"_", "_", "_">>), ADDR_TRIM),
         Trimmed(a, 0, Text(<<"_">>), 0),
         a,
         Trimmed(b, ADDR_TRIM, Text(<<"_", "_", "_">>), ADDR_TRIM) }

Call_recover_address ==
    /\ call = "idle"
    /\ \E is_tapsigner \in BOOLEAN, card_nonce \in {N1, Fill(CARD_NONCE_SIZE + 1, 17)},
          sl \in {0, 1}, addr \in ExpectedAddrs,
          pubkey \in {SlotKey, Key(2, 81), KeyP},
          sig \in {Fill(64, 178), Fill(64, 179), Fill(64, 180)},
          my_nonce \in {M1, M2, Fill(USER_NONCE_SIZE - 1, 34)} :
         LET status_resp == [is_tapsigner |-> is_tapsigner, card_nonce |-> card_nonce,
                             slots |-> <<sl>>, addr |-> addr]
             read_resp == [pubkey |-> pubkey, sig |-> sig]
             r == recover_address(status_resp, read_resp, my_nonce)
         IN /\ call' = "recover_address"
            /\ input' = [status_resp |-> status_resp, read_resp |-> read_resp,
                         my_nonce |-> my_nonce]
            /\ outcome' = r.outcome
            /\ ops' = r.ops

Call_make_recoverable_sig ==
    /\ call = "idle"
    /\ \E digest \in {Digest1, [len |-> 31, sha256 |-> <<1>>]},
          sig \in {Fill(64, b) : b \in 209..214} \cup {Fill(63, 209)},
          addr \in {null, String(<<>>), String(SubSeq(render_address(KeyP, FALSE), 5, 30)),
                    String(render_address(KeyQ, FALSE)), String(render_address(KeyQ, TRUE)),
                    String(Fill(ADDR_TRIM, Chr("0"))),
                    String(SubSeq(render_address(KeyP, FALSE), 30, 30))},
          expect_pubkey \in {null, Buffer(KeyP), Buffer(KeyQ), Buffer(JunkKey(1)),
                             Buffer(<<>>), Buffer(<<KeyP[1]>>)},
          is_testnet \in BOOLEAN :
         LET r == make_recoverable_sig(digest, sig, addr, expect_pubkey, is_testnet)
         IN /\ call' = "make_recoverable_sig"
            /\ input' = [digest |-> digest, sig |-> sig, addr |-> addr,
                         expect_pubkey |-> expect_pubkey, is_testnet |-> is_testnet]
            /\ outcome' = r.outcome
            /\ ops' = r.ops

CmdInputs == { String(Text(<<"r", "e", "a", "d">>)), String(Text(<<"u", "n", "s", "e", "a", "l">>)) }

\* codes as Buffers, as ASCII strings, and as strings of euro signs, of
\* e-acutes and of three characters outside the basic plane (a surrogate pair each)
CvcInputs ==
    { Buffer([i \in 1..n |-> 47 + i]) : n \in {5, 6, 7, 32, 33} }
      \cup { String([i \in 1..n |-> Chr("0") + (i % 10)]) : n \in {5, 6, 32, 33} }
      \cup { String(Fill(2, Euro)), String(Fill(6, EAcute)), String(Fill(20, EAcute)),
             String([i \in 1..6 |-> IF i % 2 = 1 THEN 55357 ELSE 56832]) }

Call_calc_xcvc ==
    /\ call = "idle"
    /\ \E cmd \in CmdInputs, card_nonce \in {N1, Fill(CARD_NONCE_SIZE, 18)},
          his_pubkey \in {CardA, SlotKey}, cvc \in CvcInputs,
          drawn \in {Fill(32, 7), Fill(32, 8)} :
         LET r == calc_xcvc(cmd, card_nonce, his_pubkey, cvc, drawn)
         IN /\ call' = "calc_xcvc"
            /\ input' = [cmd |-> cmd, card_nonce |-> card_nonce, his_pubkey |-> his_pubkey,
                         cvc |-> cvc, drawn |-> drawn]
            /\ outcome' = r.outcome
            /\ ops' = r.ops

Call_verify_master_pubkey ==
    /\ call = "idle"
    /\ \E pub \in {KeyT, CardA}, sig \in {Fill(64, 182), Fill(64, 177)},
          chain_code \in {ChainCode, Fill(31, 204), Fill(33, 204)},
          my_nonce \in {M1, M2, Fill(USER_NONCE_SIZE + 1, 34)},
          card_nonce \in {N1, Fill(CARD_NONCE_SIZE - 1, 17)} :
         LET r == verify_master_pubkey(pub, sig, chain_code, my_nonce, card_nonce)
         IN /\ call' = "verify_master_pubkey"
            /\ input' = [pub |-> pub, sig |-> sig, chain_code |-> chain_code,
                         my_nonce |-> my_nonce, card_nonce |-> card_nonce]
            /\ outcome' = r.outcome
            /\ ops' = r.ops

Next ==
    \/ Call_verify_master_pubkey
    \/ Call_calc_xcvc
    \/ Call_verify_certs
    \/ Call_recover_pubkey
    \/ Call_recover_address
    \/ Call_make_recoverable_sig
    \/ Call_pick_nonce
    \/ Call_str2path
    \/ Call_path2str
    \/ Call_roundtrip

Spec == Init /\ [][Next]_vars

(***************************************************************************)
(* Properties.  The helpers below restate, from the inputs alone, what a   *)
(* call is expected to decide.                                             *)
(***************************************************************************)
RootKeySet == Range(FACTORY_ROOT_KEYS)

CounterfeitError == "Root cert is not from Coinkite. Card is counterfeit."

BadAuthError == "bad sig in when verifying certificates"

RECURSIVE WalkedKey(_, _)
\* the key obtained by walking every link of chain in order from key; Null if a link fails
WalkedKey(chain, key) ==
    IF Len(chain) = 0 THEN key
    ELSE LET got == CT_sig_to_pubkey(sha256s(key), Head(chain))
         IN IF got = Null THEN Null ELSE WalkedKey(Tail(chain), got)

VcChain == input.certs_resp.cert_chain

\* a sealed-slot key is attested: the card is not a v0.9.0 one and a key was given
VcSlotGiven ==
    /\ input.status_resp.ver # "0.9.0"
    /\ input.slot_pubkey # null
    /\ input.slot_pubkey # String(<<>>)

\* the bytes of the attested key; a key given as text is hexadecimal
VcSlot ==
    IF ~VcSlotGiven THEN <<>>
    ELSE IF input.slot_pubkey.isString THEN hexWrite(input.slot_pubkey.data)
    ELSE input.slot_pubkey.data

VcFramed ==
    /\ Len(input.status_resp.card_nonce) = CARD_NONCE_SIZE
    /\ Len(input.my_nonce) = USER_NONCE_SIZE
    /\ VcSlotGiven => Len(VcSlot) = 33

VcMessage == OPENDIME \o input.status_resp.card_nonce \o input.my_nonce \o VcSlot

VcAuthValid == CT_sig_verify(input.check_resp.auth_sig, sha256s(VcMessage), input.status_resp.pubkey)

VcFinal == WalkedKey(VcChain, input.status_resp.pubkey)

\* C1: verify_certs returns only the key obtained by walking the whole chain
\* from the card's key, and only when that key is a member of the trusted
\* root set; a call that reaches the end of the walk with a key outside the
\* set fails with the counterfeit-device error, and no call whose final key
\* is outside the set returns a key.
C1_OnlyRootsAccepted ==
    call = "verify_certs" =>
        /\ outcome.status = "ok" =>
             /\ VcFinal # Null
             /\ outcome.value = VcFinal
             /\ VcFinal \in RootKeySet
        /\ VcFinal \notin RootKeySet => outcome.status = "error"
        /\ (Len(VcChain) >= 2 /\ VcFramed /\ VcAuthValid /\ VcFinal # Null /\ VcFinal \notin RootKeySet)
             => outcome = Thrown(CounterfeitError)

C1_Witness ==
    /\ call = "verify_certs"
    /\ VcAuthValid
    /\ VcFinal # Null
    /\ VcFinal \notin RootKeySet
    /\ outcome = Thrown(CounterfeitError)

\* C2: for every key K of the trusted root set, a call with a chain of at
\* least 2 links, a valid authentication signature and a walk ending at K
\* returns K.
C2_EveryRootAccepted ==
    (call = "verify_certs" /\ Len(VcChain) >= 2 /\ VcFramed /\ VcAuthValid /\ VcFinal \in RootKeySet)
        => outcome = Returned(VcFinal)

\* C10: when the authentication signature does not verify against the card's
\* public key and the hash of the signing message, verify_certs fails, with
\* the bad-auth-signature error once chain length and framing are in order,
\* and it has made no link recovery and no root comparison.
C10_AuthBeforeChain ==
    (call = "verify_certs" /\ ~VcAuthValid) =>
        /\ outcome.status = "error"
        /\ \A i \in 1..Len(ops) : ops[i].op = "CT_sig_verify"
        /\ (Len(VcChain) >= 2 /\ VcFramed) => outcome = Thrown(BadAuthError)

C10_Witness ==
    /\ call = "verify_certs"
    /\ ~VcAuthValid
    /\ Len(VcChain) >= 2
    /\ VcFramed
    /\ WalkedKey(VcChain, input.status_resp.pubkey) \in RootKeySet
    /\ outcome = Thrown(BadAuthError)
    /\ Len(ops) = 1

SigRecoveryError == "sig may not be created by that address/pubkey??"

MrsWellFormed == input.digest.len = 32 /\ Len(input.sig) = 64

\* the key candidate c recovers, Null when recovery fails
MrsKey(c) == CT_sig_to_pubkey(input.digest, <<39 + c>> \o input.sig)

\* the candidates the call has tried, in order
MrsTried == {ops[i].sig[1] - 39 : i \in {j \in 1..Len(ops) : ops[j].op = "CT_sig_to_pubkey"}}

\* C3: when recovery fails for candidate 0 or 1 the call ends in an error at
\* that candidate (no signature is returned, no later candidate is tried); a
\* failure for candidate 2 or 3 is skipped: the call goes on to the next
\* candidate, or, after candidate 3, ends as if 3 had not matched.
C3_EarlyRecoveryFailurePropagates ==
    (call = "make_recoverable_sig" /\ MrsWellFormed) =>
        \A c \in MrsTried :
            MrsKey(c) = Null =>
                IF c < 2
                THEN outcome.status = "error" /\ \A d \in MrsTried : d <= c
                ELSE IF c < 3 THEN c + 1 \in MrsTried
                ELSE outcome = Thrown(SigRecoveryError)

\* candidate c satisfies every constraint the caller supplied
MrsSatisfies(c) ==
    /\ MrsKey(c) # Null
    /\ input.expect_pubkey # null => MrsKey(c) = input.expect_pubkey.data
    /\ (input.addr # null /\ input.addr # String(<<>>))
         => endsWith(render_address(MrsKey(c), input.is_testnet), input.addr.data)

\* C8: for a 32-byte digest and a 64-byte signature the call returns the
\* recovery-id byte and the signature of the lowest candidate in 0..3 whose
\* recovered key satisfies all supplied constraints, and fails with the
\* signature-recovery error, after at most four attempts, when no candidate
\* does.
C8_LowestMatchingCandidate ==
    (call = "make_recoverable_sig" /\ MrsWellFormed) =>
        /\ Cardinality({i \in 1..Len(ops) : ops[i].op = "CT_sig_to_pubkey"}) <= 4
        /\ IF \E c \in 0..3 : MrsSatisfies(c)
           THEN LET c == CHOOSE x \in 0..3 : MrsSatisfies(x) /\ \A y \in 0..(x - 1) : ~MrsSatisfies(y)
                IN outcome = Returned(<<39 + c>> \o input.sig)
           ELSE outcome = Thrown(SigRecoveryError)

\* a nonce is degenerate when it has fewer than 2 distinct bytes or its first
\* byte equals its last byte
Degenerate(rv) == Cardinality(Range(rv)) < 2 \/ rv[1] = rv[Len(rv)]

\* C4: pick_nonce never returns a degenerate nonce, and when all its
\* attempts are degenerate it fails instead of returning a nonce or no value.
C4_NoDegenerateNonce ==
    call = "pick_nonce" =>
        /\ outcome.status = "ok" => ~Degenerate(outcome.value)
        /\ outcome.status # "undefined"
        /\ (\A i \in 1..num_of_retry : Degenerate(input.draws[i])) => outcome.status = "error"

\* the value of a path component before the hardening flag is applied
ComponentValue(item) ==
    IF item[Len(item)] \in HardenedMarks THEN parseInt(SubSeq(item, 1, Len(item) - 1))
    ELSE parseInt(item)

\* the components str2path parses: it skips "m" and empty ones
ParsedComponents(path) ==
    {item \in Range(split(path, Chr("/"))) : item # Text(<<"m">>) /\ item # <<>>}

Malformed(item) == Len(item) = 1 /\ item[1] \in HardenedMarks

OutOfRange(item) ==
    /\ ~Malformed(item)
    /\ LET v == ComponentValue(item) IN v.nan \/ NumLess(v, Num(0, 0)) \/ ~NumLess(v, HARDENED)

PathRangeErrors == {"Hardened path component out of range", "Non-hardened path component out of range"}

\* C5: str2path rejects every path with a component whose value, before the
\* hardening flag, is outside [0, 2^31) (negative and non-numeric included)
\* with a path-range error, and a returned path holds only 32-bit values.
C5_OutOfRangeRejected ==
    call = "str2path" =>
        /\ (\E item \in ParsedComponents(input.path) : OutOfRange(item)) =>
             /\ outcome.status = "error"
             /\ (\A item \in ParsedComponents(input.path) : ~Malformed(item))
                  => outcome.error \in PathRangeErrors
        /\ outcome.status = "ok" =>
             \A i \in 1..Len(outcome.value) :
                 LET e == outcome.value[i]
                 IN ~e.nan /\ ~e.inf /\ ~NumLess(e, Num(0, 0)) /\ Len(e.limbs) <= 2

\* C9: for every well-formed path p, str2path(path2str(p)) returns p, element
\* for element, the empty path and hardened components included.
C9_RoundTrip ==
    call = "roundtrip" => outcome = Returned(input.path)

C9_Witness ==
    /\ call = "roundtrip"
    /\ Len(input.path) >= 2
    /\ HasHardened(input.path[1])
    /\ ~HasHardened(input.path[2])
    /\ outcome = Returned(input.path)

RpFramed ==
    /\ Len(input.status_resp.card_nonce) = CARD_NONCE_SIZE
    /\ Len(input.my_nonce) = USER_NONCE_SIZE

RpUnmaskable == Len(input.read_resp.pubkey) = Len(input.ses_key) + 1

\* first byte unchanged, the remaining bytes XOR-ed with the session key
RpUnmasked ==
    <<input.read_resp.pubkey[1]>>
        \o [i \in 1..Len(input.ses_key) |-> XorByte(input.read_resp.pubkey[i + 1], input.ses_key[i])]

RpMessage == OPENDIME \o input.status_resp.card_nonce \o input.my_nonce \o <<0>>

\* the response signature verifies, as a signature, against the unmasked key
RpProof == CT_sig_verify(input.read_resp.sig, sha256s(RpMessage), RpUnmasked)

\* C6: on a tapsigner response that is well framed, recover_pubkey returns
\* the unmasked key exactly when the response signature verifies against
\* that key and the hash of prefix || CardNonce || HostNonce || 0x00, and
\* raises the proof-of-possession error when it does not.
C6_ProofOfPossession ==
    (call = "recover_pubkey" /\ input.status_resp.is_tapsigner /\ RpFramed /\ RpUnmaskable) =>
        IF RpProof THEN outcome = Returned(RpUnmasked)
        ELSE outcome = Thrown("Bad sig in recover_pubkey")

RaExpect == input.status_resp.addr

RaHasSeparator == Chr("_") \in Range(RaExpect)

\* the text before the first separator and the text after the last one
RaPrefix == SubSeq(RaExpect, 1, IndexOf(RaExpect, Chr("_")) - 1)

RaSuffix == SubSeq(RaExpect, lastIndexOf(RaExpect, Chr("_")) + 2, Len(RaExpect))

RaRendered == render_address(input.read_resp.pubkey, FALSE)

RaMatches ==
    /\ RaHasSeparator
    /\ startsWith(RaRendered, RaPrefix)
    /\ endsWith(RaRendered, RaSuffix)
    /\ Len(RaPrefix) = ADDR_TRIM
    /\ Len(RaSuffix) = ADDR_TRIM

RaMessage ==
    OPENDIME \o input.status_resp.card_nonce \o input.my_nonce \o <<input.status_resp.slots[1]>>

RaSigValid ==
    /\ Len(input.status_resp.card_nonce) = CARD_NONCE_SIZE
    /\ Len(input.my_nonce) = USER_NONCE_SIZE
    /\ CT_sig_verify(input.read_resp.sig, sha256s(RaMessage), input.read_resp.pubkey)

\* C7: recover_address returns {pubkey, addr} only if the address rendered
\* from the response key starts with the expected prefix, ends with the
\* expected suffix and both have length ADDR_TRIM; when the signature
\* verifies and any of these fails the call throws the counterfeit error,
\* and it never ends without a value or an error.
C7_PrefixSuffixTrim ==
    call = "recover_address" =>
        /\ outcome.status = "ok" =>
             /\ RaMatches
             /\ outcome.value = [pubkey |-> input.read_resp.pubkey, addr |-> RaRendered]
        /\ (~input.status_resp.is_tapsigner /\ RaSigValid /\ ~RaMatches)
             => outcome = Thrown("Corrupt response")
        /\ outcome.status # "undefined"

C7_Witness ==
    /\ call = "recover_address"
    /\ RaSigValid
    /\ RaMatches
    /\ outcome.status = "ok"

ChainTooShortError == "Missing certs"

\* C11: a call of verify_certs with a chain of fewer than 2 signatures fails
\* with the chain-too-short error whatever the other inputs are, and it has
\* made no signature verification and no key recovery.
C11_ShortChainRejectedFirst ==
    (call = "verify_certs" /\ Len(VcChain) < 2) =>
        /\ outcome = Thrown(ChainTooShortError)
        /\ ops = <<>>

C11_Witness ==
    /\ call = "verify_certs"
    /\ Len(VcChain) = 1
    /\ VcFramed
    /\ VcAuthValid
    /\ VcFinal \in RootKeySet
    /\ outcome = Thrown(ChainTooShortError)
    /\ ops = <<>>

\* the verification code as bytes
XcCode == IF input.cvc.isString THEN Utf8(input.cvc.data) ELSE input.cvc.data

\* sha256(card_nonce || cmd) as bytes
XcDigest == DigestBytes(sha256s(input.card_nonce \o Utf8(input.cmd.data)))

\* xcvc XOR the first n bytes of (session key XOR digest)
XcDecrypted(sk, xcvc) ==
    [i \in 1..Len(xcvc) |-> XorByte(xcvc[i], XorByte(sk[i], XcDigest[i]))]

\* C12: for a verification code of 6 to 32 bytes calc_xcvc returns an xcvc
\* as long as the code that decrypts, with the returned session key and
\* sha256(card_nonce || cmd), to the code; a code shorter than 6 or longer
\* than 32 bytes is rejected with the invalid-input error.
C12_XcvcDecrypts ==
    call = "calc_xcvc" =>
        IF Len(XcCode) >= 6 /\ Len(XcCode) <= 32
        THEN /\ outcome.status = "ok"
             /\ Len(outcome.value.ag.xcvc) = Len(XcCode)
             /\ XcDecrypted(outcome.value.sk, outcome.value.ag.xcvc) = XcCode
        ELSE outcome = Thrown("Invalid cvc length")

FramedCalls == {"verify_certs", "recover_pubkey", "recover_address", "verify_master_pubkey"}

FramingErrors ==
    { "Invalid message length", "Invalid slot pubkey length",
      "recover_address: invalid message length", "verify_master_pubkey: invalid message length" }

FmCardNonce ==
    IF call = "verify_master_pubkey" THEN input.card_nonce ELSE input.status_resp.card_nonce

\* the context field that varies in length, and the length it must have
FmContext ==
    IF call = "verify_certs" THEN VcSlot
    ELSE IF call = "verify_master_pubkey" THEN input.chain_code
    ELSE <<0>>

FmContextSize ==
    IF call = "verify_certs" THEN (IF VcSlotGiven THEN 33 ELSE 0)
    ELSE IF call = "verify_master_pubkey" THEN 32
    ELSE 1

\* every nonce and context field has its fixed length
FmFieldsSized ==
    /\ Len(FmCardNonce) = CARD_NONCE_SIZE
    /\ Len(input.my_nonce) = USER_NONCE_SIZE
    /\ Len(FmContext) = FmContextSize

\* the concatenated message has the exact sum of the fixed lengths; the
\* sealed-slot key of verify_certs is sized on its own
FmTotalSized ==
    IF call = "verify_certs"
    THEN /\ Len(FmCardNonce) + Len(input.my_nonce) = CARD_NONCE_SIZE + USER_NONCE_SIZE
         /\ Len(FmContext) = FmContextSize
    ELSE Len(FmCardNonce) + Len(input.my_nonce) + Len(FmContext)
             = CARD_NONCE_SIZE + USER_NONCE_SIZE + FmContextSize

\* the errors of the checks made before the message is built
FmEarlierErrors ==
    { "Missing certs", "Card is not a Tapsigner", "recover_address: tapsigner not supported" }

\* the checks a function makes before it builds the message
FmReachesFraming ==
    IF call = "verify_certs" THEN Len(VcChain) >= 2
    ELSE IF call = "recover_pubkey" THEN input.status_resp.is_tapsigner
    ELSE IF call = "recover_address" THEN ~input.status_resp.is_tapsigner
    ELSE TRUE

\* C13 as stated: when a nonce or a context field has the wrong length the
\* call fails, with the framing error once it reaches the framing check, and
\* no signature operation is performed.
C13_FieldLengthsChecked ==
    (call \in FramedCalls /\ ~FmFieldsSized) =>
        /\ outcome.status = "error"
        /\ ops = <<>>
        /\ FmReachesFraming => outcome.error \in FramingErrors

\* C13 amended: in verify_certs, recover_pubkey, recover_address and
\* verify_master_pubkey the total length of the signing message is compared
\* with the exact sum of the fixed lengths before any signature operation:
\* a call whose message has the wrong total length fails and performs no
\* signature operation; it fails with the framing error when it reaches the
\* framing check (a chain of at least 2 links in verify_certs, the right
\* device type in recover_pubkey and recover_address), and with the error of
\* that earlier check otherwise; and every message handed to a verification
\* has the exact total length.
C13_MessageLengthChecked ==
    call \in FramedCalls =>
        /\ ~FmTotalSized =>
             /\ outcome.status = "error"
             /\ ops = <<>>
             /\ FmReachesFraming => outcome.error \in FramingErrors
             /\ ~FmReachesFraming => outcome.error \in FmEarlierErrors
        /\ \A i \in 1..Len(ops) :
             ops[i].op = "CT_sig_verify" =>
                 Len(ops[i].digest.sha256) = 8 + CARD_NONCE_SIZE + USER_NONCE_SIZE + FmContextSize

C13_Witness ==
    /\ call = "verify_master_pubkey"
    /\ Len(input.card_nonce) = CARD_NONCE_SIZE
    /\ Len(input.my_nonce) = USER_NONCE_SIZE
    /\ Len(input.chain_code) = 33
    /\ CT_sig_verify(input.sig, sha256s(OPENDIME \o input.card_nonce \o input.my_nonce \o ChainCode), input.pub)
    /\ outcome = Thrown("verify_master_pubkey: invalid message length")
    /\ ops = <<>>

====
